---- MODULE Spec2Model ----
(***************************************************************************)
(* Model of include/triton/Analysis/Utility.h: the CallGraph<T> template   *)
(* (construction, walk, getFuncData, mapFuncOp, mapCallOp), the            *)
(* ReduceOpHelper, product and multiRootTopologicalSort.                   *)
(*                                                                         *)
(* Functions and call operations are opaque identities, modelled as small  *)
(* naturals.  A module is its sequence of call operations in program       *)
(* order; the identity of a call operation is its position.  DenseMap and  *)
(* SmallVector are modelled as ideal maps and sequences (no rehashing:     *)
(* the first rehash of a non-empty DenseMap happens at 48 keys).           *)
(***************************************************************************)
EXTENDS Integers, Sequences, FiniteSets, TLC

\* ---------------------------------------------------------------- bounds
NumFuncs == 3          \* functions of the module, in module order 1..NumFuncs
NumClones == 2         \* further function identities (clones made by passes)
MaxCallOps == 3        \* call operations of a module under Spec
MaxMapCallOps == 2     \* call operations of a module under SpecMap
NumCallClones == 1     \* further call-operation identities (cloned calls)
MaxOps == 2            \* operations applied to one graph under SpecMap
MaxInputs == 2         \* operands of a reduction
MaxExtent == 2         \* lanes or warps of a layout along one dimension
NumNodes == 4          \* operations a set handed to the sort is drawn from
IntBits == 4           \* width of int, scaled down (Int of twice the width
                       \* stands for the 64-bit types, of half for the 8/16-bit)
MaxElem == 4           \* largest element of an array handed to product
MaxLen == 2            \* longest array handed to product

\* dyn_cast_or_null of an unresolvable callee
NullFunc == 0

Funcs == 1..NumFuncs
FuncIds == 1..(NumFuncs + NumClones)
CloneIds == (NumFuncs + 1)..(NumFuncs + NumClones)
CallIds == 1..(MaxCallOps + NumCallClones)
CallCloneIds == (MaxCallOps + 1)..(MaxCallOps + NumCallClones)
\* deepest recursion the model follows; an acyclic path never has more
\* frames than there are function identities
MaxDepth == NumFuncs + NumClones + 1

WalkOrder == {"PreOrder", "PostOrder"}

VARIABLES
  moduleOp,   \* the module: sequence of [caller, callee] call operations
  graph,      \* DenseMap function -> SmallVector of <<callOp, callee>>
  funcMap,    \* DenseMap function -> payload T
  roots,      \* SmallVector of functions
  walkLog,    \* callbacks invoked by the most recent operation
  status,     \* "idle" | "done" | "fatal" | "overflow"
  hist        \* bookkeeping of the operations applied since construction:
              \*   n: their number, last: the most recent one,
              \*   retired: the identities mapFuncOp has mapped away,
              \*   attached: the functions an analysis has stored a payload for

VARIABLES
  rh,         \* a triton::ReduceOp and the ReduceOpHelper made from it
  ts,         \* a call of multiRootTopologicalSort: its input and its result
  pr          \* a call of product<Int>: its argument, the state of
              \* std::accumulate and the value returned

cgVars == <<moduleOp, graph, funcMap, roots, walkLog, status, hist>>

vars == <<moduleOp, graph, funcMap, roots, walkLog, status, hist, rh, ts, pr>>

\* ------------------------------------------------------------ containers
EmptyMap == [x \in {} |-> 0]

\* DenseMap::operator[] used as an lvalue / rvalue: value-initialises a
\* missing key
Touch(m, k, dflt) == IF k \in DOMAIN m THEN m
                     ELSE [x \in (DOMAIN m) \cup {k} |-> IF x = k THEN dflt ELSE m[x]]

Put(m, k, v) == [x \in (DOMAIN m) \cup {k} |-> IF x = k THEN v ELSE m[x]]

\* value-initialised payload T{}
DefaultData == 0

\* ----------------------------------------------------------------- build
\* program order: operations of function 1 first, then function 2, ...
ProgramOrder(calls) ==
  \A i \in 1..Len(calls) : \A j \in 1..Len(calls) :
     i < j => calls[i][1] <= calls[j][1]

Modules(n) ==
  { calls \in UNION { [1..k -> Funcs \X (Funcs \cup {NullFunc})] : k \in 0..n } :
      ProgramOrder(calls) }

\* the caller marked instead of the callee
BuildVisited_Callers(calls) ==
  { calls[i][1] : i \in { j \in 1..Len(calls) : calls[j][2] # NullFunc } }

\* the set `visited` of build(): resolved callees
BuildVisited(calls) ==
  { calls[i][2] : i \in { j \in 1..Len(calls) : calls[j][2] # NullFunc } }

RECURSIVE BuildEdges(_, _, _)
\* an edge added for every call operation, its callee resolved or not
BuildEdges_Unresolved(calls, i, g) ==
  IF i > Len(calls) THEN g
  ELSE LET caller == calls[i][1]
           funcOp == calls[i][2]
           g1 == Touch(g, caller, <<>>)
       IN BuildEdges(calls, i + 1,
             [g1 EXCEPT ![caller] = Append(@, <<i, funcOp>>)])

\* first moduleOp.walk of build(): graph[caller].emplace_back(callOp, funcOp)
BuildEdges(calls, i, g) ==
  IF i > Len(calls) THEN g
  ELSE LET caller == calls[i][1]
           funcOp == calls[i][2]
       IN IF funcOp # NullFunc
          THEN LET g1 == Touch(g, caller, <<>>)
               IN BuildEdges(calls, i + 1,
                     [g1 EXCEPT ![caller] = Append(@, <<i, funcOp>>)])
          ELSE BuildEdges(calls, i + 1, g)

BuildGraph(calls) == BuildEdges(calls, 1, EmptyMap)

RECURSIVE BuildRootsFrom(_, _)
\* second moduleOp.walk of build(): roots.push_back of unvisited functions
BuildRootsFrom(calls, f) ==
  IF f > NumFuncs THEN <<>>
  ELSE IF f \notin BuildVisited(calls)
       THEN <<f>> \o BuildRootsFrom(calls, f + 1)
       ELSE BuildRootsFrom(calls, f + 1)

BuildRoots(calls) == BuildRootsFrom(calls, 1)

\* -------------------------------------------------------------- getters
getRoots == roots

isRoot(funcOp) == \E i \in 1..Len(roots) : roots[i] = funcOp

getNumFunctions == Cardinality(DOMAIN funcMap)

\* a T* is modelled as <<payload>>, nullptr as the empty tuple
nullptr == <<>>

getFuncData(funcOp) ==
  IF funcOp \in DOMAIN funcMap THEN <<funcMap[funcOp]>> ELSE nullptr

\* ----------------------------------------------------------------- walk
\* The callbacks are the caller's; the model's callbacks record their
\* invocation together with the traversal state at that moment.
NodeEvent(st, funcOp) ==
  [kind |-> "node", func |-> funcOp, callOp |-> 0,
   path |-> st.path, visited |-> st.visited]

EdgeEvent(st, callOp, callee) ==
  [kind |-> "edge", func |-> callee, callOp |-> callOp,
   path |-> st.path, visited |-> st.visited]

updateNodeFn(st, funcOp) == [st EXCEPT !.log = Append(@, NodeEvent(st, funcOp))]

updateEdgeFn(st, callOp, callee) ==
  [st EXCEPT !.log = Append(@, EdgeEvent(st, callOp, callee))]

\* the test negated
CycleCheck_Negated(visited, funcOp) == funcOp \notin visited

\* the test at the head of doWalk
CycleCheck(visited, funcOp) == funcOp \in visited

\* what doWalk does to `visited` between the test and the erase
Enter(visited, funcOp) == visited

RECURSIVE doWalk(_, _, _, _)
RECURSIVE doWalkEdges(_, _, _, _, _)

\* call sites taken last to first
doWalkEdges_Reversed(funcOp, i, st, eo, no) ==
  IF st.status # "ok" \/ i > Len(st.graph[funcOp]) THEN st
  ELSE LET k == Len(st.graph[funcOp]) + 1 - i
           callOp == st.graph[funcOp][k][1]
           callee == st.graph[funcOp][k][2]
           s1 == IF eo = "PreOrder" THEN updateEdgeFn(st, callOp, callee) ELSE st
           s2 == doWalk(callee, s1, eo, no)
           s3 == IF s2.status = "ok" /\ eo = "PostOrder"
                 THEN updateEdgeFn(s2, callOp, callee) ELSE s2
       IN doWalkEdges(funcOp, i + 1, s3, eo, no)

doWalkEdges(funcOp, i, st, eo, no) ==
  IF st.status # "ok" \/ i > Len(st.graph[funcOp]) THEN st
  ELSE LET callOp == st.graph[funcOp][i][1]
           callee == st.graph[funcOp][i][2]
           s1 == IF eo = "PreOrder" THEN updateEdgeFn(st, callOp, callee) ELSE st
           s2 == doWalk(callee, s1, eo, no)
           s3 == IF s2.status = "ok" /\ eo = "PostOrder"
                 THEN updateEdgeFn(s2, callOp, callee) ELSE s2
       IN doWalkEdges(funcOp, i + 1, s3, eo, no)

\* the post-order node update placed before the loop over the call sites
doWalk_NodeBeforeEdges(funcOp, st, eo, no) ==
  IF st.status # "ok" THEN st
  ELSE IF CycleCheck(st.visited, funcOp) THEN [st EXCEPT !.status = "fatal"]
  ELSE IF Len(st.path) >= MaxDepth THEN [st EXCEPT !.status = "overflow"]
  ELSE LET s0 == [st EXCEPT !.path = Append(@, funcOp),
                            !.visited = Enter(@, funcOp)]
           s1 == updateNodeFn(s0, funcOp)
           s2 == [s1 EXCEPT !.graph = Touch(@, funcOp, <<>>)]
           s3 == doWalkEdges(funcOp, 1, s2, eo, no)
       IN IF s3.status = "ok"
          THEN [s3 EXCEPT !.visited = @ \ {funcOp},
                          !.path = SubSeq(@, 1, Len(@) - 1)]
          ELSE s3

doWalk(funcOp, st, eo, no) ==
  IF st.status # "ok" THEN st
  ELSE IF CycleCheck(st.visited, funcOp) THEN [st EXCEPT !.status = "fatal"]
  ELSE IF Len(st.path) >= MaxDepth THEN [st EXCEPT !.status = "overflow"]
  ELSE LET s0 == [st EXCEPT !.path = Append(@, funcOp),
                            !.visited = Enter(@, funcOp)]
           s1 == IF no = "PreOrder" THEN updateNodeFn(s0, funcOp) ELSE s0
           s2 == [s1 EXCEPT !.graph = Touch(@, funcOp, <<>>)]
           s3 == doWalkEdges(funcOp, 1, s2, eo, no)
           s4 == IF s3.status = "ok" /\ no = "PostOrder"
                 THEN updateNodeFn(s3, funcOp) ELSE s3
       IN IF s4.status = "ok"
          THEN [s4 EXCEPT !.visited = @ \ {funcOp},
                          !.path = SubSeq(@, 1, Len(@) - 1)]
          ELSE s4

RECURSIVE walkRoots(_, _, _, _)
\* the loop over the roots left after its first iteration
walkRoots_FirstOnly(i, st, eo, no) ==
  IF st.status # "ok" \/ i > Len(roots) \/ i > 1 THEN st
  ELSE walkRoots(i + 1, doWalk(roots[i], st, eo, no), eo, no)

walkRoots(i, st, eo, no) ==
  IF st.status # "ok" \/ i > Len(roots) THEN st
  ELSE walkRoots(i + 1, doWalk(roots[i], st, eo, no), eo, no)

walk(eo, no) ==
  walkRoots(1, [graph |-> graph, visited |-> {}, log |-> <<>>,
                path |-> <<>>, status |-> "ok"], eo, no)

Alive == status \in {"idle", "done"}

Walk(eo, no) ==
  /\ LET r == walk(eo, no)
     IN /\ graph' = r.graph
        /\ walkLog' = r.log
        /\ status' = IF r.status = "ok" THEN "done" ELSE r.status
  /\ hist' = [hist EXCEPT !.n = @ + 1, !.last = [op |-> "walk", a |-> eo, b |-> no]]
  /\ UNCHANGED <<moduleOp, funcMap, roots>>

\* ------------------------------------------------------------ mapFuncOp
\* only the first edge of every adjacency list examined
ReplaceCallee_FirstEdge(g, funcOp, targetFuncOp) ==
  [k \in DOMAIN g |->
     [i \in 1..Len(g[k]) |->
        IF i = 1 /\ g[k][i][2] = funcOp THEN <<g[k][i][1], targetFuncOp>> ELSE g[k][i]]]

\* first loop of mapFuncOp: edge.second = targetFuncOp where it was funcOp
ReplaceCallee(g, funcOp, targetFuncOp) ==
  [k \in DOMAIN g |->
     [i \in 1..Len(g[k]) |->
        IF g[k][i][2] = funcOp THEN <<g[k][i][1], targetFuncOp>> ELSE g[k][i]]]

\* graph[targetFuncOp] = graph[funcOp]; both operator[] insert missing keys
CopyAdjacency(g, funcOp, targetFuncOp) ==
  LET g1 == Touch(g, funcOp, <<>>)
  IN Put(g1, targetFuncOp, g1[funcOp])

RECURSIVE ReplaceRootFrom(_, _, _, _)
\* the roots loop of mapFuncOp: replaces the first match and breaks
ReplaceRootFrom(r, i, funcOp, targetFuncOp) ==
  IF i > Len(r) THEN r
  ELSE IF r[i] = funcOp THEN [r EXCEPT ![i] = targetFuncOp]
       ELSE ReplaceRootFrom(r, i + 1, funcOp, targetFuncOp)

\* the target pushed onto the roots whether or not funcOp was one
ReplaceRoot_Push(r, funcOp, targetFuncOp) == Append(r, targetFuncOp)

\* the roots left as they are
ReplaceRoot_Keep(r, funcOp, targetFuncOp) == r

ReplaceRoot(r, funcOp, targetFuncOp) == ReplaceRootFrom(r, 1, funcOp, targetFuncOp)

\* the payload moved: the entry of funcOp erased after the copy
CopyFuncData_Move(m, funcOp, targetFuncOp) ==
  LET m1 == Touch(m, funcOp, DefaultData)
      m2 == Put(m1, targetFuncOp, m1[funcOp])
  IN IF funcOp = targetFuncOp THEN m2
     ELSE [x \in (DOMAIN m2) \ {funcOp} |-> m2[x]]

\* funcMap[targetFuncOp] = funcMap[funcOp]; both operator[] insert missing keys
CopyFuncData(m, funcOp, targetFuncOp) ==
  LET m1 == Touch(m, funcOp, DefaultData)
  IN Put(m1, targetFuncOp, m1[funcOp])

\* identities the call graph holds: keys, callees, roots, payload keys
EdgeIdx(g) == UNION { { <<k, i>> : i \in 1..Len(g[k]) } : k \in DOMAIN g }

Callees(g) == { g[e[1]][e[2]][2] : e \in EdgeIdx(g) }

KnownFuncs == DOMAIN graph \cup Callees(graph) \cup DOMAIN funcMap
              \cup { roots[i] : i \in 1..Len(roots) } \cup Funcs

Fresh(targetFuncOp) == targetFuncOp \notin KnownFuncs

\* the function a pass has just created to stand for another: an identity
\* the graph has never held (the next unused one)
NewFunc ==
  LET unused == CloneIds \ KnownFuncs
  IN { t \in unused : \A u \in unused : t <= u }

MapFuncOp(funcOp, targetFuncOp) ==
  /\ graph' = CopyAdjacency(ReplaceCallee(graph, funcOp, targetFuncOp),
                            funcOp, targetFuncOp)
  /\ roots' = ReplaceRoot(roots, funcOp, targetFuncOp)
  /\ funcMap' = CopyFuncData(funcMap, funcOp, targetFuncOp)
  /\ hist' = [hist EXCEPT !.n = @ + 1, !.last = [op |-> "mapFuncOp", a |-> funcOp, b |-> targetFuncOp],
                          !.retired = @ \cup ({funcOp} \ {targetFuncOp}),
                          !.attached = IF funcOp \in @ THEN @ \cup {targetFuncOp}
                                       ELSE @]
  /\ walkLog' = <<>>
  /\ UNCHANGED <<moduleOp, status>>

\* ------------------------------------------------------------ mapCallOp
\* the two call operations taken the wrong way round
ReplaceCallOp_Swapped(g, callOp, targetCallOp) ==
  [k \in DOMAIN g |->
     [i \in 1..Len(g[k]) |->
        IF g[k][i][1] = targetCallOp THEN <<callOp, g[k][i][2]>> ELSE g[k][i]]]

ReplaceCallOp(g, callOp, targetCallOp) ==
  [k \in DOMAIN g |->
     [i \in 1..Len(g[k]) |->
        IF g[k][i][1] = callOp THEN <<targetCallOp, g[k][i][2]>> ELSE g[k][i]]]

Labels(g) == { g[e[1]][e[2]][1] : e \in EdgeIdx(g) }

\* the call operation a pass has just created to stand for another
NewCall ==
  LET unused == CallCloneIds \ Labels(graph)
  IN { t \in unused : \A u \in unused : t <= u }

MapCallOp(callOp, targetCallOp) ==
  /\ graph' = ReplaceCallOp(graph, callOp, targetCallOp)
  /\ hist' = [hist EXCEPT !.n = @ + 1, !.last = [op |-> "mapCallOp", a |-> callOp, b |-> targetCallOp]]
  /\ walkLog' = <<>>
  /\ UNCHANGED <<moduleOp, funcMap, roots, status>>

\* ------------------------------------------------- payloads of analyses
\* funcMap is protected: the analyses deriving from CallGraph<T> store the
\* payload of a function they have analysed
\* the payload an analysis computes for a function; payloads of different
\* functions differ, and none is the value-initialised one
PayloadOf(funcOp) == funcOp

AttachData(funcOp) ==
  /\ funcOp \notin hist.attached
  /\ funcMap' = Put(funcMap, funcOp, PayloadOf(funcOp))
  /\ hist' = [hist EXCEPT !.n = @ + 1, !.last = [op |-> "attach", a |-> funcOp, b |-> 0],
                          !.attached = @ \cup {funcOp}]
  /\ walkLog' = <<>>
  /\ UNCHANGED <<moduleOp, graph, roots, status>>

\* ------------------------------------------------------ ReduceOpHelper
\* RankedTensorType::getShape of the operands
Shapes == { <<4, 8>>, <<4, 16>> }

Rank == 2

Extents == 1..MaxExtent

\* RankedTensorType::getEncoding: lanes of a warp and warps of a block
\* along each dimension
Layouts ==
  { [lanes |-> <<a, b>>, warps |-> <<b, a>>] : a \in Extents, b \in Extents }

TensorTypes == [shape : Shapes, encoding : Layouts]

\* rop.getInputTypes(), never empty
InputTypes == UNION { [1..k -> TensorTypes] : k \in 1..MaxInputs }

NoReduceOp ==
  [phase |-> "none", inputs |-> <<>>, axis |-> 0, srcShape |-> <<>>,
   srcEncoding |-> <<>>, diags |-> <<>>, ret |-> <<>>]

\* rop.emitError() << msg: the diagnostic is reported, execution goes on
emitError(h, msg) == [h EXCEPT !.diags = Append(@, msg)]

\* the encoding compared only where the shape agrees
CheckInput_ElseIf(h, t) ==
  IF t.shape # h.srcShape THEN emitError(h, "shape mismatch")
  ELSE IF t.encoding # h.srcEncoding THEN emitError(h, "encoding mismatch")
  ELSE h

\* body of the loop over rop.getInputTypes()
CheckInput(h, t) ==
  LET h1 == IF t.shape # h.srcShape THEN emitError(h, "shape mismatch") ELSE h
  IN IF t.encoding # h1.srcEncoding THEN emitError(h1, "encoding mismatch")
     ELSE h1

RECURSIVE CheckInputs(_, _)
CheckInputs(h, i) ==
  IF i > Len(h.inputs) THEN h
  ELSE CheckInputs(CheckInput(h, h.inputs[i]), i + 1)

\* ReduceOpHelper(rop)
Construct ==
  /\ rh.phase = "op"
  /\ LET firstTy == rh.inputs[1]
         h == [rh EXCEPT !.srcShape = firstTy.shape,
                         !.srcEncoding = firstTy.encoding]
     IN rh' = [CheckInputs(h, 1) EXCEPT !.phase = "constructed"]
  /\ UNCHANGED <<cgVars, ts, pr>>

getSrcShape == rh.srcShape

getSrcLayout == rh.srcEncoding

\* lane-level partitions that cover the reduction axis
getIntraWarpSize == getSrcLayout.lanes[rh.axis]

\* warp-level partitions that cover the reduction axis
getInterWarpSize == getSrcLayout.warps[rh.axis]

\* the lanes of one warp taken for all lanes spanning the axis
getThreadsReductionAxis_OneWarp == getSrcLayout.lanes[rh.axis]

\* total lanes spanning the reduction axis
getThreadsReductionAxis ==
  getSrcLayout.lanes[rh.axis] * getSrcLayout.warps[rh.axis]

Accessors ==
  { "getSrcShape", "getSrcLayout", "getInterWarpSize", "getIntraWarpSize",
    "getThreadsReductionAxis" }

Result(name) ==
  CASE name = "getSrcShape" -> getSrcShape
    [] name = "getSrcLayout" -> getSrcLayout
    [] name = "getInterWarpSize" -> getInterWarpSize
    [] name = "getIntraWarpSize" -> getIntraWarpSize
    [] name = "getThreadsReductionAxis" -> getThreadsReductionAxis

\* a caller asks the helper for a value of the plan
Query(name) ==
  /\ rh.phase = "constructed"
  /\ rh' = [rh EXCEPT !.ret = <<name, Result(name)>>]
  /\ UNCHANGED <<cgVars, ts, pr>>

\* -------------------------------------------- multiRootTopologicalSort
\* Operations are numbered so that an operation depends only on lower
\* numbered ones; <<u, v>> says that v depends on u.
Nodes == 1..NumNodes

DepGraphs == SUBSET { e \in Nodes \X Nodes : e[1] < e[2] }

\* a SetVector: distinct elements in insertion order
SetVectors ==
  { q \in UNION { [1..k -> Nodes] : k \in 0..NumNodes } :
      \A i \in 1..Len(q) : \A j \in 1..Len(q) : i # j => q[i] # q[j] }

NoSort == [phase |-> "none", deps |-> {}, toSort |-> <<>>, out |-> <<>>]

Elems(q) == { q[i] : i \in 1..Len(q) }

\* the operations of toSort that n depends on, in the order of toSort
DepsOf(deps, toSort, n) ==
  SelectSeq(toSort, LAMBDA u : <<u, n>> \in deps)

RECURSIVE Visit(_, _, _, _)
RECURSIVE VisitAll(_, _, _, _, _)

\* an operation emitted before the operations it depends on
Visit_EmitFirst(deps, toSort, n, st) ==
  IF n \in st.visited THEN st
  ELSE LET s1 == [visited |-> st.visited \cup {n}, out |-> Append(st.out, n)]
       IN VisitAll(deps, toSort, DepsOf(deps, toSort, n), 1, s1)

\* depth-first visit that prunes what has been visited before
Visit(deps, toSort, n, st) ==
  IF n \in st.visited THEN st
  ELSE LET s1 == [st EXCEPT !.visited = @ \cup {n}]
           s2 == VisitAll(deps, toSort, DepsOf(deps, toSort, n), 1, s1)
       IN [s2 EXCEPT !.out = Append(@, n)]

VisitAll(deps, toSort, q, i, st) ==
  IF i > Len(q) THEN st
  ELSE VisitAll(deps, toSort, q, i + 1, Visit(deps, toSort, q[i], st))

multiRootTopologicalSort(deps, toSort) ==
  VisitAll(deps, toSort, toSort, 1, [visited |-> {}, out |-> <<>>]).out

Sort ==
  /\ ts.phase = "input"
  /\ ts' = [ts EXCEPT !.phase = "sorted",
                      !.out = multiRootTopologicalSort(ts.deps, ts.toSort)]
  /\ UNCHANGED <<cgVars, rh, pr>>

\* -------------------------------------------------------------- product
\* An integer type is its width and signedness.
IntType == [bits |-> IntBits, signed |-> TRUE]

\* the element types Int: narrower than int, as wide, wider
IntegerTypes == [bits : {IntBits \div 2, IntBits, 2 * IntBits}, signed : BOOLEAN]

RECURSIVE Pow2(_)
Pow2(n) == IF n = 0 THEN 1 ELSE 2 * Pow2(n - 1)

MinOf(ty) == IF ty.signed THEN -Pow2(ty.bits - 1) ELSE 0

MaxOf(ty) == IF ty.signed THEN Pow2(ty.bits - 1) - 1 ELSE Pow2(ty.bits) - 1

ValuesOf(ty) == MinOf(ty)..MaxOf(ty)

\* integral conversion of x to type ty (modulo 2^bits)
Convert(ty, x) ==
  LET m == Pow2(ty.bits)
      r == x % m
  IN IF ty.signed /\ r > MaxOf(ty) THEN r - m ELSE r

\* the type of acc * elem, acc an int and elem an Int: the usual arithmetic
\* conversions
CommonType(ty) ==
  IF ty.bits < IntBits THEN IntType
  ELSE IF ty.bits = IntBits THEN [bits |-> IntBits, signed |-> ty.signed]
  ELSE ty

\* std::multiplies<void>: the values acc * elem may have; a signed overflow
\* is undefined
multiplies(acc, elem, ty) ==
  LET ct == CommonType(ty)
      p == Convert(ct, acc) * Convert(ct, elem)
  IN IF ct.signed /\ p \notin ValuesOf(ct) THEN ValuesOf(ct)
     ELSE { Convert(ct, p) }

\* the accumulator started from the additive identity
AccInit_Zero == 1 - 1

\* the init argument of std::accumulate, the int literal 1
AccInit == 1

\* the type T of the accumulator, deduced from the init argument
AccType(ty) == IntType

ElemsOf(ty) == { v \in -1..MaxElem : v \in ValuesOf(ty) }

Arrays(ty) == UNION { [1..k -> ElemsOf(ty)] : k \in 0..MaxLen }

NoProduct == [phase |-> "none", ty |-> IntType, arr |-> <<>>, i |-> 0,
              acc |-> 0, ret |-> 0]

\* one iteration of std::accumulate: acc = std::move(acc) * *first
Accumulate ==
  /\ pr.phase = "loop"
  /\ pr.i <= Len(pr.arr)
  /\ \E v \in multiplies(pr.acc, pr.arr[pr.i], pr.ty) :
        pr' = [pr EXCEPT !.acc = Convert(AccType(pr.ty), v), !.i = @ + 1]
  /\ UNCHANGED <<cgVars, rh, ts>>

\* return of product: the accumulator converted to Int
Return ==
  /\ pr.phase = "loop"
  /\ pr.i > Len(pr.arr)
  /\ pr' = [pr EXCEPT !.phase = "returned", !.ret = Convert(pr.ty, pr.acc)]
  /\ UNCHANGED <<cgVars, rh, ts>>

\* ---------------------------------------------------- shape of a graph
Succ(g, f) == IF f \in DOMAIN g THEN { g[f][i][2] : i \in 1..Len(g[f]) } ELSE {}

RECURSIVE Closure(_, _)
Closure(g, S) ==
  LET T == S \cup UNION { Succ(g, f) : f \in S }
  IN IF T = S THEN S ELSE Closure(g, T)

\* functions reachable from f by one or more calls
ReachableFrom(g, f) == Closure(g, Succ(g, f))

HasCycle(g) == \E f \in DOMAIN g : f \in ReachableFrom(g, f)

\* a program as the compiler accepts it: every call resolved, no recursion
ValidModules(n) ==
  { calls \in Modules(n) :
      /\ \A i \in 1..Len(calls) : calls[i][2] # NullFunc
      /\ ~HasCycle(BuildGraph(calls)) }

\* -------------------------------------------------------- specification
InitWith(modules) ==
  /\ moduleOp \in modules
  /\ graph = BuildGraph(moduleOp)
  /\ roots = BuildRoots(moduleOp)
  /\ funcMap = EmptyMap
  /\ walkLog = <<>>
  /\ status = "idle"
  /\ hist = [n |-> 0, last |-> [op |-> "build", a |-> 0, b |-> 0],
             retired |-> {}, attached |-> {}]
  /\ rh = NoReduceOp
  /\ ts = NoSort
  /\ pr = NoProduct

Init == InitWith(Modules(MaxCallOps))

CanStep == Alive /\ hist.n < MaxOps /\ UNCHANGED <<rh, ts, pr>>

Walking == CanStep /\ \E eo \in WalkOrder, no \in WalkOrder : Walk(eo, no)

Next == Walking

Spec == Init /\ [][Next]_vars

\* the graph of a valid program under the analyses and passes that use it:
\* an analysis stores the payload of a function, a pass that has replaced a
\* function or a call operation by a new one maps the old identity to the new
InitMap == InitWith(ValidModules(MaxMapCallOps))

RemapFunc == CanStep /\ \E f \in KnownFuncs : \E t \in NewFunc : MapFuncOp(f, t)

RemapCall == CanStep /\ \E c \in Labels(graph) : \E t \in NewCall : MapCallOp(c, t)

Analyse == CanStep /\ \E f \in KnownFuncs : AttachData(f)

NextMap == Walking \/ RemapFunc \/ RemapCall \/ Analyse

SpecMap == InitMap /\ [][NextMap]_vars

\* a reduction handed to the helper, and the queries of its caller
NoCallGraph ==
  /\ moduleOp = <<>>
  /\ graph = EmptyMap
  /\ roots = <<>>
  /\ funcMap = EmptyMap
  /\ walkLog = <<>>
  /\ status = "idle"
  /\ hist = [n |-> 0, last |-> [op |-> "build", a |-> 0, b |-> 0],
             retired |-> {}, attached |-> {}]

InitReduce ==
  /\ NoCallGraph
  /\ ts = NoSort
  /\ pr = NoProduct
  /\ \E ins \in InputTypes, ax \in 1..Rank :
        rh = [NoReduceOp EXCEPT !.phase = "op", !.inputs = ins, !.axis = ax]

Querying == \E name \in Accessors : Query(name)

NextReduce == Construct \/ Querying

SpecReduce == InitReduce /\ [][NextReduce]_vars

\* a set of operations handed to the sort
InitSort ==
  /\ NoCallGraph
  /\ rh = NoReduceOp
  /\ pr = NoProduct
  /\ \E d \in DepGraphs, q \in SetVectors :
        ts = [NoSort EXCEPT !.phase = "input", !.deps = d, !.toSort = q]

NextSort == Sort

SpecSort == InitSort /\ [][NextSort]_vars

\* a call product<Int>(arr)
InitProduct ==
  /\ NoCallGraph
  /\ rh = NoReduceOp
  /\ ts = NoSort
  /\ \E ty \in IntegerTypes : \E a \in Arrays(ty) :
        pr = [phase |-> "loop", ty |-> ty, arr |-> a, i |-> 1,
              acc |-> Convert(AccType(ty), AccInit), ret |-> 0]

NextProduct == Accumulate \/ Return

SpecProduct == InitProduct /\ [][NextProduct]_vars

\* ==================================================================
\* Properties
\* ==================================================================
Walked == hist.last.op = "walk"

NodeIdx == { i \in 1..Len(walkLog) : walkLog[i].kind = "node" }
EdgeEvIdx == { i \in 1..Len(walkLog) : walkLog[i].kind = "edge" }

NodeCount(f) == Cardinality({ i \in NodeIdx : walkLog[i].func = f })
EdgeCount(c) == Cardinality({ i \in EdgeEvIdx : walkLog[i].callOp = c })

RECURSIVE FuncsOf(_)
FuncsOf(evs) == IF evs = <<>> THEN <<>> ELSE <<Head(evs).func>> \o FuncsOf(Tail(evs))

IsNode(ev) == ev.kind = "node"

\* the functions the node-update callback was invoked on, in order
NodeSeq == FuncsOf(SelectSeq(walkLog, IsNode))

\* A calls B, B calls C; A, B, C are the functions 1, 2, 3
ChainABC == <<<<1, 2>>, <<2, 3>>>>

InChain(f) == f \in {1, 2, 3}

\* the node callbacks on, and the roots among, the functions of the chain
ChainNodeSeq == SelectSeq(NodeSeq, InChain)
ChainRoots == SelectSeq(roots, InChain)

\* a function reached along two paths: A calls B and C, B calls C
SharedCallee == <<<<1, 2>>, <<1, 3>>, <<2, 3>>>>

\* C1: for a call graph with a self-call or mutual recursion, reachable
\* from a root or not, walk reports the fatal error "Cycle detected in
\* call graph" (and so neither returns normally nor recurses on).
C1_CycleReported == (Walked /\ HasCycle(graph)) => status = "fatal"

\* ------------------------------------------------------------------ C2
InEdges(g, f) == { e \in EdgeIdx(g) : g[e[1]][e[2]][2] = f }

RECURSIVE NumPaths(_)
RECURSIVE SumPaths(_)
\* number of call paths from a root to f (acyclic graphs)
NumPaths(f) == (IF isRoot(f) THEN 1 ELSE 0) + SumPaths(InEdges(graph, f))

SumPaths(es) ==
  IF es = {} THEN 0
  ELSE LET e == CHOOSE x \in es : TRUE
       IN NumPaths(e[1]) + SumPaths(es \ {e})

\* C2 as stated: during one walk over an acyclic call graph the node-update
\* callback is invoked exactly once for every function of the module and the
\* edge-update callback exactly once for every resolved call site.
C2_OncePerFunction ==
  (Walked /\ ~HasCycle(graph)) =>
     /\ \A f \in Funcs : NodeCount(f) = 1
     /\ \A e \in EdgeIdx(graph) : EdgeCount(graph[e[1]][e[2]][1]) = 1

\* C2 amended: during one walk over an acyclic call graph the node-update
\* callback is invoked on every function of the module once per call path
\* from a root to it (at least once), and the edge-update callback on every
\* resolved call site once per call path from a root to its caller.
C2_OncePerPath ==
  (Walked /\ ~HasCycle(graph)) =>
     /\ status = "done"
     /\ \A f \in Funcs : NodeCount(f) = NumPaths(f) /\ NodeCount(f) >= 1
     /\ \A e \in EdgeIdx(graph) :
          EdgeCount(graph[e[1]][e[2]][1]) = NumPaths(e[1])

C2_Witness ==
  /\ Walked /\ status = "done"
  /\ moduleOp = SharedCallee
  /\ NodeCount(3) = 2 /\ NodeCount(1) = 1 /\ EdgeCount(3) = 1

\* ------------------------------------------------------------------ C3
RECURSIVE PreOrderFrom(_)
RECURSIVE PreOrderCallees(_, _)
\* f, then the pre-order of each callee in the order of f's call sites
PreOrderFrom(f) == <<f>> \o PreOrderCallees(f, 1)

PreOrderCallees(f, i) ==
  IF f \notin DOMAIN graph \/ i > Len(graph[f]) THEN <<>>
  ELSE PreOrderFrom(graph[f][i][2]) \o PreOrderCallees(f, i + 1)

RECURSIVE PreOrderRoots(_)
PreOrderRoots(i) ==
  IF i > Len(roots) THEN <<>> ELSE PreOrderFrom(roots[i]) \o PreOrderRoots(i + 1)

\* C3: in a walk with UpdateNodeOrder = PreOrder over an acyclic call graph,
\* every node-update invocation on a function reached through a caller comes
\* after a node-update invocation on that caller, callees are entered in the
\* order of their call sites, and on the chain A calls B calls C the node
\* callbacks are exactly A, B, C.
C3_PreOrder ==
  (Walked /\ hist.last.b = "PreOrder" /\ ~HasCycle(graph)) =>
     /\ \A i \in NodeIdx :
          LET p == walkLog[i].path
          IN Len(p) > 1 =>
               \E j \in NodeIdx : /\ j < i
                                  /\ walkLog[j].func = p[Len(p) - 1]
                                  /\ walkLog[j].path = SubSeq(p, 1, Len(p) - 1)
     /\ NodeSeq = PreOrderRoots(1)
     /\ moduleOp = ChainABC => ChainNodeSeq = <<1, 2, 3>>

C3_Witness ==
  /\ Walked /\ hist.last.b = "PreOrder" /\ status = "done"
  /\ moduleOp = ChainABC
  /\ ChainNodeSeq = <<1, 2, 3>>

\* ------------------------------------------------------------------ C4
\* C4: in a walk with UpdateNodeOrder = PostOrder over an acyclic call graph,
\* when the node-update callback is invoked on f it has already been invoked
\* on every callee of f, and on the chain A calls B calls C the node
\* callbacks are exactly C, B, A.
C4_PostOrder ==
  (Walked /\ hist.last.b = "PostOrder" /\ ~HasCycle(graph)) =>
     /\ \A i \in NodeIdx :
          \A c \in Succ(graph, walkLog[i].func) :
             \E j \in NodeIdx : j < i /\ walkLog[j].func = c
     /\ moduleOp = ChainABC => ChainNodeSeq = <<3, 2, 1>>

C4_Witness ==
  /\ Walked /\ hist.last.b = "PostOrder" /\ status = "done"
  /\ moduleOp = ChainABC
  /\ ChainNodeSeq = <<3, 2, 1>>

\* ------------------------------------------------------------------ C5
ResolvedCallees == { moduleOp[i][2] : i \in 1..Len(moduleOp) } \ {NullFunc}

\* C5: as long as no function has been remapped, getRoots() holds exactly the
\* functions of the module that are not the resolved callee of any call
\* site, each once and in module order, isRoot(f) is true exactly for them,
\* and the roots of the chain A calls B calls C are {A}.
C5_Roots ==
  hist.retired = {} =>
     /\ \A i \in 1..Len(getRoots) : getRoots[i] \in Funcs \ ResolvedCallees
     /\ \A f \in Funcs \ ResolvedCallees : \E i \in 1..Len(getRoots) : getRoots[i] = f
     /\ \A i \in 1..Len(getRoots) : \A j \in 1..Len(getRoots) :
          i < j => getRoots[i] < getRoots[j]
     /\ \A f \in FuncIds : isRoot(f) <=> f \in Funcs \ ResolvedCallees
     /\ moduleOp = ChainABC => ChainRoots = <<1>>

C5_Witness ==
  /\ hist.n = 0
  /\ moduleOp = ChainABC
  /\ ChainRoots = <<1>> /\ isRoot(1) /\ ~isRoot(2) /\ ~isRoot(3)

\* ------------------------------------------------------------------ C6
\* the step just taken is mapFuncOp(b, t)
MapFuncOpStep(b, t) ==
  /\ hist'.n = hist.n + 1
  /\ hist'.last = [op |-> "mapFuncOp", a |-> b, b |-> t]

\* the arguments of the operation the step has made
ArgA == {hist'.last.a}

ArgB == {hist'.last.b}

AdjOf(g, f) == IF f \in DOMAIN g THEN g[f] ELSE <<>>

\* edge list es2 is es with callee b replaced by t, call sites and order kept
Retargeted(es, es2, b, t) ==
  /\ Len(es2) = Len(es)
  /\ \A i \in 1..Len(es) :
       /\ es2[i][1] = es[i][1]
       /\ es2[i][2] = IF es[i][2] = b THEN t ELSE es[i][2]

InWalkLog(f) ==
  \E i \in 1..Len(walkLog) :
     \/ walkLog[i].func = f
     \/ \E j \in 1..Len(walkLog[i].path) : walkLog[i].path[j] = f

\* B is not reachable under its identity
Gone(f) ==
  /\ f \notin Callees(graph)
  /\ ~isRoot(f)
  /\ Walked => ~InWalkLog(f)

\* C7: once mapFuncOp(B, B') has mapped B to an identity B' not yet in the
\* graph, no edge has B as callee, B is not a root (B' has taken its position
\* in the root set if B was one), and a walk made afterwards invokes no
\* callback with B.
C7_OldIdentityGone ==
  [][ /\ \A f \in hist'.retired : Gone(f)'
      /\ \A b \in ArgA, t \in ArgB :
           (MapFuncOpStep(b, t) /\ Fresh(t)) =>
              /\ Len(roots') = Len(roots)
              /\ \A i \in 1..Len(roots) :
                   roots'[i] = IF roots[i] = b THEN t ELSE roots[i]
    ]_vars

\* B a callee and caller, remapped, then walked
C7_Witness ==
  /\ Walked /\ status = "done"
  /\ moduleOp = ChainABC
  /\ hist.retired = {2}
  /\ InWalkLog(NumFuncs + 1) /\ ~InWalkLog(2)

\* ------------------------------------------------------------------ C8
\* C8 as stated: mapFuncOp(B, B') moves B's adjacency list and payload, so
\* that afterwards nothing is stored under B, getFuncData(B) is absent and
\* getNumFunctions() is what it was.
C8_Moves ==
  [][ \A b \in ArgA, t \in ArgB :
        (MapFuncOpStep(b, t) /\ b # t) =>
           /\ b \notin DOMAIN graph'
           /\ getFuncData(b)' = nullptr
           /\ getNumFunctions' = getNumFunctions
    ]_vars

\* C8 amended: mapFuncOp(B, B') copies B's adjacency list and payload: after
\* the call both are stored under B as well as under B', getFuncData(B)
\* returns B's prior payload (a value-initialised one if B had none) and not
\* the absent result, and getNumFunctions() has grown by one for each of B
\* and B' that had no payload before.
C8_Copies ==
  [][ \A b \in ArgA, t \in ArgB :
        (MapFuncOpStep(b, t) /\ b # t) =>
           /\ b \in DOMAIN graph' /\ t \in DOMAIN graph'
           /\ graph'[b] = graph'[t]
           /\ Retargeted(AdjOf(graph, b), graph'[b], b, t)
           /\ getFuncData(b)' # nullptr
           /\ getFuncData(b)' = IF b \in DOMAIN funcMap THEN <<funcMap[b]>>
                                ELSE <<DefaultData>>
           /\ getFuncData(t)' = getFuncData(b)'
           /\ getNumFunctions' =
                getNumFunctions + Cardinality({b, t} \ DOMAIN funcMap)
    ]_vars

C8_Witness ==
  /\ hist.last.op = "mapFuncOp" /\ hist.n = 2
  /\ hist.last.a = 2 /\ hist.last.b = NumFuncs + 1
  /\ 2 \in hist.attached
  /\ moduleOp = ChainABC
  /\ graph[2] = <<<<2, 3>>>> /\ graph[NumFuncs + 1] = graph[2]
  /\ funcMap[2] = PayloadOf(2)
  /\ getFuncData(NumFuncs + 1) = getFuncData(2)
  /\ getNumFunctions = 2

\* ------------------------------------------------------------------ C9
MapCallOpStep(c, t) ==
  /\ hist'.n = hist.n + 1
  /\ hist'.last = [op |-> "mapCallOp", a |-> c, b |-> t]

\* C9: a step mapCallOp(c, c') gives the label c' to the edges labelled c and
\* changes nothing else: the keys of the graph, the length and order of every
\* adjacency list, every callee, every other label, the roots and the
\* payloads.
C9_MapCallOp ==
  [][ \A c \in ArgA, t \in ArgB :
        MapCallOpStep(c, t) =>
           /\ DOMAIN graph' = DOMAIN graph
           /\ \A k \in DOMAIN graph :
                /\ Len(graph'[k]) = Len(graph[k])
                /\ \A i \in 1..Len(graph[k]) :
                     /\ graph'[k][i][2] = graph[k][i][2]
                     /\ graph'[k][i][1] =
                          IF graph[k][i][1] = c THEN t ELSE graph[k][i][1]
           /\ roots' = roots
           /\ funcMap' = funcMap
    ]_vars

C9_Witness ==
  /\ hist.last.op = "mapCallOp" /\ hist.n = 1
  /\ moduleOp = ChainABC
  /\ hist.last.a = 1 /\ hist.last.b = MaxCallOps + 1
  /\ graph[1] = <<<<MaxCallOps + 1, 2>>>>
  /\ graph[2] = <<<<2, 3>>>>
  /\ Labels(graph) = {2, MaxCallOps + 1}

\* ----------------------------------------------------------------- C10
\* C10: getFuncData(f) is the absent result for every function to which no
\* payload was ever attached (directly or carried over by a remap of a
\* function that had one) and a payload otherwise; no operation creates a
\* payload for a function that was never analysed.
C10_AbsentUnlessAttached ==
  \A f \in FuncIds :
     /\ f \notin hist.attached => getFuncData(f) = nullptr
     /\ f \in hist.attached => getFuncData(f) # nullptr

\* ----------------------------------------------------------------- C11
Reported(msg) == \E i \in 1..Len(rh.diags) : rh.diags[i] = msg

\* C11: a helper constructed from operands with mismatched shapes has
\* reported the mismatch and hands no value of the plan (shape, layout,
\* sizes) to its caller.
C11_NoPlanAfterMismatch ==
  (rh.phase = "constructed" /\ Reported("shape mismatch")) => rh.ret = <<>>

\* ----------------------------------------------------------------- C12
SomeShapeDiffers(ins) == \E i \in 1..Len(ins) : ins[i].shape # ins[1].shape

SomeEncodingDiffers(ins) ==
  \E i \in 1..Len(ins) : ins[i].encoding # ins[1].encoding

\* C12: the construction of a helper always completes; it reports "shape
\* mismatch" exactly when some operand's shape differs from the first
\* operand's, and "encoding mismatch" exactly when some operand's layout
\* differs from the first operand's, and reports nothing else.
C12_Diagnostics ==
  [][ rh.phase = "op" =>
        /\ rh'.phase = "constructed"
        /\ Reported("shape mismatch")' <=> SomeShapeDiffers(rh.inputs)
        /\ Reported("encoding mismatch")' <=> SomeEncodingDiffers(rh.inputs)
        /\ \A i \in 1..Len(rh'.diags) :
             rh'.diags[i] \in {"shape mismatch", "encoding mismatch"}
    ]_vars

\* [4,8] against [4,16] in another layout
C12_Witness ==
  /\ rh.phase = "constructed"
  /\ Len(rh.inputs) = 2
  /\ rh.inputs[1].shape = <<4, 8>> /\ rh.inputs[2].shape = <<4, 16>>
  /\ rh.inputs[1].encoding # rh.inputs[2].encoding
  /\ rh.diags = <<"shape mismatch", "encoding mismatch">>

Pos(q, n) == CHOOSE i \in 1..Len(q) : q[i] = n

\* one shared dependency, two consumers of it, one operation joining them
Diamond == { <<1, 2>>, <<1, 3>>, <<2, 4>>, <<3, 4>> }

\* C14: the result of multiRootTopologicalSort holds every operation of
\* the input exactly once and no other, and every operation after all the
\* operations of the input it depends on, whatever the order of the input
\* and however many operations share a dependency.
C14_TopologicalOrder ==
  ts.phase = "sorted" =>
     /\ Len(ts.out) = Len(ts.toSort)
     /\ Elems(ts.out) = Elems(ts.toSort)
     /\ \A e \in ts.deps :
          (e[1] \in Elems(ts.toSort) /\ e[2] \in Elems(ts.toSort)) =>
             Pos(ts.out, e[1]) < Pos(ts.out, e[2])

\* the diamond handed over joiner first
C14_Witness ==
  /\ ts.phase = "sorted"
  /\ ts.deps = Diamond
  /\ ts.toSort = <<4, 3, 2, 1>>
  /\ ts.out = <<1, 3, 2, 4>>

\* ----------------------------------------------------------------- C15
\* C15: product of an empty array returns 1, whatever the element type.
C15_EmptyProduct ==
  (pr.phase = "returned" /\ pr.arr = <<>>) => pr.ret = 1

C15_Witness ==
  /\ pr.phase = "returned" /\ pr.arr = <<>>
  /\ pr.ty = [bits |-> 2 * IntBits, signed |-> FALSE]
  /\ pr.ret = 1

\* ----------------------------------------------------------------- C16
\* C16: whenever walk invokes a callback, the visited set of the traversal
\* holds exactly the functions on the current depth-first path from the
\* root being walked.
C16_VisitedIsPath ==
  Walked =>
     \A i \in 1..Len(walkLog) :
        walkLog[i].visited = Elems(walkLog[i].path)

\* ----------------------------------------------------------------- C17
\* positions of the call operations of caller f with a resolved callee
ResolvedSites(calls, f) ==
  { i \in 1..Len(calls) : calls[i][1] = f /\ calls[i][2] # NullFunc }

\* C17: the graph holds, under every function, one edge (call site, callee)
\* for each of its call sites with a resolved callee, in program order, and
\* nothing else: no edge for an unresolved call site and no edge twice; a
\* function that is the resolved callee of no call site is a root, whatever
\* unresolved call sites the module has.
C17_BuiltEdges ==
  /\ \A f \in Funcs :
       LET es == AdjOf(graph, f)
       IN /\ Len(es) = Cardinality(ResolvedSites(moduleOp, f))
          /\ \A k \in 1..Len(es) :
               /\ es[k][1] \in ResolvedSites(moduleOp, f)
               /\ es[k][2] = moduleOp[es[k][1]][2]
               /\ \A j \in 1..Len(es) : j < k => es[j][1] < es[k][1]
  /\ DOMAIN graph \subseteq Funcs
  /\ \A f \in Funcs :
       (\A i \in 1..Len(moduleOp) : moduleOp[i][2] # f) => isRoot(f)

\* A calls an unresolved callee, then B; B calls an unresolved callee
C17_Witness ==
  /\ hist.n = 0
  /\ moduleOp = <<<<1, NullFunc>>, <<1, 2>>, <<2, NullFunc>>>>
  /\ graph = [f \in {1} |-> <<<<2, 2>>>>]
  /\ isRoot(1) /\ isRoot(3) /\ ~isRoot(2)

\* ----------------------------------------------------------------- C18
\* C18: after construction and after every mapFuncOp onto an identity not
\* yet in the graph and every mapCallOp, no function is twice among the
\* roots and no root is the callee of an edge.
C18_RootsInvariant ==
  /\ \A i \in 1..Len(roots) : \A j \in 1..Len(roots) :
       i # j => roots[i] # roots[j]
  /\ \A i \in 1..Len(roots) : roots[i] \notin Callees(graph)

\* root A and callee B of the chain both mapped to clones
C18_Witness ==
  /\ moduleOp = ChainABC
  /\ hist.retired = {1, 2}
  /\ roots = <<NumFuncs + 1>>
  /\ Callees(graph) = {3, NumFuncs + 2}

\* ----------------------------------------------------------------- C19
\* C19: on an acyclic call graph, also one where a function is reached
\* along several paths or from several roots, walk returns and reports no
\* cycle.
C19_AcyclicWalkReturns ==
  (Walked /\ ~HasCycle(graph)) => status = "done"

\* two roots and two paths to a shared callee
C19_Witness ==
  /\ Walked /\ status = "done"
  /\ moduleOp = <<<<1, 3>>, <<2, 3>>>>
  /\ roots = <<1, 2>>
  /\ NodeCount(3) = 2

\* ----------------------------------------------------------------- C20
RECURSIVE MathProduct(_, _)
\* the product of the elements from position i on, as integers
MathProduct(arr, i) ==
  IF i > Len(arr) THEN 1 ELSE arr[i] * MathProduct(arr, i + 1)

\* C20: for an element type Int wider than int, product returns the product
\* of the elements reduced modulo 2^width(Int): nothing is cut down to a
\* narrower width on the way.
C20_NoTruncation ==
  (pr.phase = "returned" /\ pr.ty.bits > IntBits) =>
     pr.ret = Convert(pr.ty, MathProduct(pr.arr, 1))

====
